---- MODULE Spec2Model ----
(***************************************************************************)
(* eBird alert scraper (scraper/scrape.py): one run of main() as a state   *)
(* machine.  Text is modelled as sequences of one-character strings so     *)
(* that split, strip, lower, "in" and startswith are computed, not         *)
(* assumed.  A page is modelled by the fragments of its content region in  *)
(* document order, each with its inline elements in document order, and by *)
(* its linked-data script blocks in document order.                        *)
(***************************************************************************)
EXTENDS Integers, Sequences, FiniteSets, TLC

VARIABLES pc, cookies, requests, response, html, sightings, stages,
          data_json, index_html, written, stdout, exit_code, exception,
          element, sighting

vars == <<pc, cookies, requests, response, html, sightings, stages,
          data_json, index_html, written, stdout, exit_code, exception,
          element, sighting>>

(* ------------------------------- bounds -------------------------------- *)
MaxCookieLen == 3
MaxNodes == 3
MaxInline == 2

(* --------------------------- text primitives --------------------------- *)
\* str: the text of a Python literal, one character per element
UPPER == <<"A","B","C","D","E","F","G","H","I","J","K","L","M",
           "N","O","P","Q","R","S","T","U","V","W","X","Y","Z">>
LOWER == <<"a","b","c","d","e","f","g","h","i","j","k","l","m",
           "n","o","p","q","r","s","t","u","v","w","x","y","z">>

LowerChar(c) ==
    IF \E i \in 1..26 : UPPER[i] = c
    THEN LOWER[CHOOSE i \in 1..26 : UPPER[i] = c]
    ELSE c

\* str.lower()
Lower(s) == [i \in 1..Len(s) |-> LowerChar(s[i])]

\* sub in s
Contains(s, sub) ==
    \E i \in 0..(Len(s) - Len(sub)) : SubSeq(s, i + 1, i + Len(sub)) = sub

\* s.startswith(p)
StartsWith(s, p) == Len(s) >= Len(p) /\ SubSeq(s, 1, Len(p)) = p

IsSpace(c) == c \in {" ", "\t", "\n"}

RECURSIVE LStrip(_)
LStrip(s) == IF s # <<>> /\ IsSpace(Head(s)) THEN LStrip(Tail(s)) ELSE s

RECURSIVE RStrip(_)
RStrip(s) ==
    IF s # <<>> /\ IsSpace(s[Len(s)]) THEN RStrip(SubSeq(s, 1, Len(s) - 1)) ELSE s

\* str.strip()
Strip(s) == RStrip(LStrip(s))

\* index of the first occurrence of the character c in s, 0 when absent
FirstIndex(s, c) ==
    IF \E i \in 1..Len(s) : s[i] = c
    THEN CHOOSE i \in 1..Len(s) : s[i] = c /\ \A j \in 1..(i - 1) : s[j] # c
    ELSE 0

\* s.split(c): always at least one piece
RECURSIVE Split(_, _)
Split(s, c) ==
    LET i == FirstIndex(s, c) IN
    IF i = 0 THEN <<s>>
    ELSE <<SubSeq(s, 1, i - 1)>> \o Split(SubSeq(s, i + 1, Len(s)), c)

\* s.split(c, 1) for an s that contains c
SplitOnce(s, c) ==
    LET i == FirstIndex(s, c) IN <<SubSeq(s, 1, i - 1), SubSeq(s, i + 1, Len(s))>>

\* all sequences over an alphabet, up to a length
SeqsUpTo(alphabet, n) == UNION {[1..k -> alphabet] : k \in 0..n}

(* ------------------------------ dict ----------------------------------- *)
EmptyDict == [k \in {} |-> <<>>]

\* d[key] = value
DictSet(d, key, value) ==
    [k \in (DOMAIN d) \cup {key} |-> IF k = key THEN value ELSE d[k]]

(* --------------------------- get_cookies_from_env ---------------------- *)
CookieChars == {"k", "=", ";", " "}

\* values of os.environ.get("EBIRD_COOKIES", ""): unset reads as ""
CookieStrings == SeqsUpTo(CookieChars, MaxCookieLen)

RECURSIVE CookieLoop(_, _)
CookieLoop(items, acc) ==
    IF items = <<>> THEN acc
    ELSE LET item == Strip(Head(items)) IN
         IF Contains(item, <<"=">>)
         THEN LET kv == SplitOnce(item, "=") IN
              CookieLoop(Tail(items), DictSet(acc, Strip(kv[1]), Strip(kv[2])))
         ELSE CookieLoop(Tail(items), acc)

\* the dict built by the loop over cookie_string.split(";")
ParseCookies(cookie_string) == CookieLoop(Split(cookie_string, ";"), EmptyDict)

(* ------------------------------ literals -------------------------------- *)
L_species    == <<"s","p","e","c","i","e","s">>
L_Observation == <<"O","b","s","e","r","v","a","t","i","o","n">>
L_obs        == <<"o","b","s">>
L_location   == <<"l","o","c","a","t","i","o","n">>
L_date       == <<"d","a","t","e">>
L_observer   == <<"o","b","s","e","r","v","e","r">>
L_checklist  == <<"/","c","h","e","c","k","l","i","s","t","/">>
L_hotspot    == <<"/","h","o","t","s","p","o","t","/">>
L_profile    == <<"/","p","r","o","f","i","l","e","/">>
L_name       == <<"n","a","m","e">>
L_slash      == <<"/">>
L_host       == <<"h","t","t","p","s",":","/","/","e","b","i","r","d",".","o","r","g">>
ALERT_URL    == L_host \o <<"/","a","l","e","r","t","/","s","u","m","m","a","r","y",
                            "?","s","i","d","=","S","N","3","5","4","6","6">>

(* -------------------------------- markup -------------------------------- *)
\* an element of the parsed document: its tag, its class and href attributes
\* (<<>> when absent), its own text, and its descendants in document order
Elem(tag, class, href, text, inl) ==
    [tag |-> tag, class |-> class, href |-> href, text |-> text, inl |-> inl]

Inline(tag, class, href, text) == Elem(tag, class, href, text, <<>>)

\* inline elements a fragment may contain
InlineElems ==
    { Inline("a", L_species, <<"/","s","/","1">>, <<" ","O","w","l"," ">>),
      Inline("span", <<"S","p","e","c","i","e","s","-","n","a","m","e">>, <<>>, <<"G","u","l","l">>),
      Inline("span", L_species, <<>>, <<" "," ">>),
      Inline("strong", <<>>, <<>>, <<"T","e","a","l">>),
      Inline("b", <<>>, <<>>, <<"R","u","f","f">>),
      Inline("a", <<>>, L_checklist \o <<"S","1">>, <<"V","i","e","w">>),
      Inline("a", <<>>, L_host \o L_checklist \o <<"S","2">>, <<>>),
      Inline("a", <<>>, <<"v","i","e","w">> \o L_checklist \o <<"S","3">>, <<>>),
      Inline("span", L_location, <<>>, <<"P","i","e","r">>),
      Inline("a", <<>>, L_hotspot \o <<"L","1">>, <<"P","a","r","k">>),
      Inline("span", <<"o","b","s","-","d","a","t","e">>, <<>>, <<"J","a","n"," ","5">>),
      Inline("span", L_observer, <<>>, <<"K","i","m">>),
      Inline("a", <<>>, L_profile \o <<"P","1">>, <<"L","e","e">>) }

\* fragments handed to extract_sighting_data
Fragments ==
    { Elem("div", L_obs, <<>>, <<>>, inl) :
        inl \in SeqsUpTo(InlineElems, MaxInline) }

\* Tag.get_text(strip=True): the stripped text pieces of the element, joined
RECURSIVE JoinText(_)
JoinText(inl) ==
    IF inl = <<>> THEN <<>> ELSE Strip(Head(inl).text) \o JoinText(Tail(inl))

get_text(e) == Strip(e.text) \o JoinText(e.inl)

\* stands for "no element found" (Python None)
None == Elem("", <<>>, <<>>, <<>>, <<>>)

\* element.find(...): the first descendant in document order among those that
\* match, given as the set of their positions
Find(e, hits) ==
    IF hits # {}
    THEN e.inl[CHOOSE i \in hits : \A j \in hits : i <= j]
    ELSE None

\* a or b on two find() results: a Tag is always truthy, None is falsy
Or(a, b) == IF a # None THEN a ELSE b

\* lambda x: x and <word> in str(x).lower()
ClassHas(e, word) == e.class # <<>> /\ Contains(Lower(e.class), word)

\* lambda x: x and <segment> in str(x)
HrefHas(e, segment) == e.href # <<>> /\ Contains(e.href, segment)

(* -------------------------- extract_sighting_data ----------------------- *)
EmptySighting ==
    [species |-> <<>>, location |-> <<>>, date |-> <<>>,
     observer |-> <<>>, checklist_url |-> <<>>, count |-> <<>>]

IsSpeciesLink(x) == x.tag = "a" /\ ClassHas(x, L_species)
IsSpeciesSpan(x) == x.tag = "span" /\ ClassHas(x, L_species)
IsStrong(x) == x.tag = "strong"
IsBold(x) == x.tag = "b"
IsLocationClass(x) == ClassHas(x, L_location)
IsHotspotLink(x) == x.tag = "a" /\ HrefHas(x, L_hotspot)
IsDateClass(x) == ClassHas(x, L_date)
IsObserverClass(x) == ClassHas(x, L_observer)
IsProfileLink(x) == x.tag = "a" /\ HrefHas(x, L_profile)
IsChecklistLink(x) == x.tag = "a" /\ HrefHas(x, L_checklist)

\* variant: the first of <strong> and <b> in document order
IsStrongOrBold(x) == x.tag \in {"strong", "b"}
species_elem_document_order(e) ==
    Or(Find(e, {i \in DOMAIN e.inl : IsSpeciesLink(e.inl[i])}),
       Or(Find(e, {i \in DOMAIN e.inl : IsSpeciesSpan(e.inl[i])}),
          Find(e, {i \in DOMAIN e.inl : IsStrongOrBold(e.inl[i])})))

species_elem(e) ==
    Or(Find(e, {i \in DOMAIN e.inl : IsSpeciesLink(e.inl[i])}),
       Or(Find(e, {i \in DOMAIN e.inl : IsSpeciesSpan(e.inl[i])}),
          Or(Find(e, {i \in DOMAIN e.inl : IsStrong(e.inl[i])}),
             Find(e, {i \in DOMAIN e.inl : IsBold(e.inl[i])}))))

location_elem(e) ==
    Or(Find(e, {i \in DOMAIN e.inl : IsLocationClass(e.inl[i])}),
       Find(e, {i \in DOMAIN e.inl : IsHotspotLink(e.inl[i])}))

date_elem(e) == Find(e, {i \in DOMAIN e.inl : IsDateClass(e.inl[i])})

observer_elem(e) ==
    Or(Find(e, {i \in DOMAIN e.inl : IsObserverClass(e.inl[i])}),
       Find(e, {i \in DOMAIN e.inl : IsProfileLink(e.inl[i])}))

checklist_link(e) == Find(e, {i \in DOMAIN e.inl : IsChecklistLink(e.inl[i])})

\* the href stored in checklist_url
ResolveHref(href) == IF StartsWith(href, L_slash) THEN L_host \o href ELSE href

TextOf(x) == IF x # None THEN get_text(x) ELSE <<>>

extract_sighting_data(e) ==
    [species |-> TextOf(species_elem(e)),
     location |-> TextOf(location_elem(e)),
     date |-> TextOf(date_elem(e)),
     observer |-> TextOf(observer_elem(e)),
     checklist_url |->
        IF checklist_link(e) # None THEN ResolveHref(checklist_link(e).href) ELSE <<>>,
     count |-> <<>>]

(* ------------------------ linked-data script blocks --------------------- *)
\* a value of a JSON list: an object (its keys and the values the code reads),
\* a number, or a string
JObject(keys, name, location, datePublished, url) ==
    [t |-> "object", keys |-> keys, name |-> name, location |-> location,
     datePublished |-> datePublished, url |-> url, s |-> <<>>]

\* the value under "location": a dict (with or without "name") or a string
LocDict(keys, name) == [is_dict |-> TRUE, keys |-> keys, name |-> name]
LocString == [is_dict |-> FALSE, keys |-> {}, name |-> <<>>]

JNumber == [JObject({}, <<>>, LocString, <<>>, <<>>) EXCEPT !.t = "number"]
JString(s) == [JObject({}, <<>>, LocString, <<>>, <<>>) EXCEPT !.t = "string", !.s = s]

\* a <script type="application/ld+json">: script.string is None for an empty
\* element; otherwise its text either fails to decode or decodes to a value
Script(string, data, items) == [string |-> string, data |-> data, items |-> items]

J_Kite == JObject({"name", "location", "datePublished", "url"}, <<"K","i","t","e">>,
                  LocDict({"name"}, <<"B","a","y">>), <<"J","a","n"," ","6">>,
                  L_host \o L_checklist \o <<"S","9">>)
J_Swan == JObject({"name", "location"}, <<"S","w","a","n">>, LocString, <<>>, <<>>)
J_EmptyName == JObject({"name"}, <<>>, LocDict({}, <<>>), <<>>, <<>>)
J_NoName == JObject({"url"}, <<>>, LocString, <<>>, <<"/","x">>)

ScriptBlocks ==
    { Script("none", "", <<>>),
      Script("text", "invalid", <<>>),
      Script("text", "dict", <<>>),
      Script("text", "list", <<J_Kite>>),
      Script("text", "list", <<J_NoName, J_EmptyName, J_Swan>>),
      Script("text", "list", <<J_Swan, JString(<<"a"," ">> \o L_name), J_Kite>>),
      Script("text", "list", <<JString(<<"x">>), JNumber, J_Kite>>) }

GenericSighting(item) ==
    [species |-> item.name,
     location |-> IF "location" \in item.keys /\ item.location.is_dict
                     /\ "name" \in item.location.keys
                  THEN item.location.name ELSE <<>>,
     date |-> IF "datePublished" \in item.keys THEN item.datePublished ELSE <<>>,
     observer |-> <<>>,
     checklist_url |-> IF "url" \in item.keys THEN item.url ELSE <<>>,
     count |-> <<>>]

\* for item in data: ... ; status is how the loop ended: "ok" (ran to the end),
\* "AttributeError" or "TypeError" (raised at an item)
RECURSIVE ItemLoop(_, _)
ItemLoop(items, acc) ==
    IF items = <<>> THEN [status |-> "ok", out |-> acc]
    ELSE LET item == Head(items) IN
         CASE item.t = "number" -> [status |-> "TypeError", out |-> acc]
           [] item.t = "string" ->
                IF Contains(item.s, L_name)
                THEN [status |-> "AttributeError", out |-> acc]
                ELSE ItemLoop(Tail(items), acc)
           [] OTHER ->
                IF "name" \in item.keys
                THEN ItemLoop(Tail(items), Append(acc, GenericSighting(item)))
                ELSE ItemLoop(Tail(items), acc)

\* the body of the try block for one script
TryBlock(script, acc) ==
    CASE script.string = "none" -> [status |-> "TypeError", out |-> acc]
      [] script.data = "invalid" -> [status |-> "JSONDecodeError", out |-> acc]
      [] script.data = "list" -> ItemLoop(script.items, acc)
      [] OTHER -> [status |-> "ok", out |-> acc]

\* except (json.JSONDecodeError, AttributeError): pass
Caught(status) == status \in {"JSONDecodeError", "AttributeError"}

\* for script in scripts: try ... except ...
RECURSIVE ScriptLoop(_, _)
ScriptLoop(scripts, acc) ==
    IF scripts = <<>> THEN [raised |-> "", out |-> acc]
    ELSE LET r == TryBlock(Head(scripts), acc) IN
         IF r.status = "ok" \/ Caught(r.status)
         THEN ScriptLoop(Tail(scripts), r.out)
         ELSE [raised |-> r.status, out |-> r.out]

extract_sightings_generic(soup) == ScriptLoop(soup.scripts, <<>>)

(* ------------------------------ parse_alerts ---------------------------- *)
\* fragments of the content region
PageRows ==
    { Elem("div", L_Observation, <<>>, <<>>,
           << Inline("strong", <<>>, <<>>, <<"T","e","a","l">>),
              Inline("a", <<>>, L_checklist \o <<"S","1">>, <<"V","i","e","w">>) >>),
      Elem("div", <<"r","o","w"," ","O","B","S">>, <<>>, <<>>,
           << Inline("span", L_location, <<>>, <<"P","i","e","r">>) >>),
      Elem("li", <<"S","p","e","c","i","e","s">>, <<>>, <<>>,
           << Inline("a", L_species, <<"/","s","/","1">>, <<" ","O","w","l"," ">>) >>),
      Elem("tr", <<>>, <<>>, <<>>,
           << Inline("b", <<>>, <<>>, <<"R","u","f","f">>) >>),
      Elem("div", <<"c","a","r","d">>, <<>>, <<>>,
           << Inline("strong", <<>>, <<>>, <<"G","u","l","l">>),
              Inline("a", <<>>, L_checklist \o <<"S","2">>, <<>>) >>),
      Elem("p", <<>>, <<>>, <<>>,
           << Inline("a", <<>>, L_checklist \o <<"S","3">>, <<"V","i","e","w">>) >>) }

Page(rows, scripts) == [rows |-> rows, scripts |-> scripts]

\* the pages of at most MaxNodes fragments and script blocks
Pages ==
    UNION { { Page(rows, scripts) :
                scripts \in SeqsUpTo(ScriptBlocks, MaxNodes - Len(rows)) } :
            rows \in SeqsUpTo(PageRows, MaxNodes) }

\* soup.find("div", {"id": "content"}) or soup.find("main") or soup
Content(soup) == soup.rows

IsObsDiv(x) ==
    x.tag = "div" /\ x.class # <<>>
    /\ (Contains(x.class, L_Observation) \/ Contains(Lower(x.class), L_obs))
IsSpeciesItem(x) == x.tag = "li" /\ ClassHas(x, L_species)
IsTableRow(x) == x.tag = "tr"

\* content.find_all(...)
Method1(content) == SelectSeq(content, IsObsDiv)
Method2(content) == SelectSeq(content, IsSpeciesItem)
Method3(content) == SelectSeq(content, IsTableRow)

\* link.find_parent(["div", "li", "tr"]) for a link of the fragment x
find_parent(x) == IF x.tag \in {"div", "li", "tr"} THEN x ELSE None

InSeq(x, seq) == \E i \in 1..Len(seq) : seq[i] = x

\* one append per checklist link, in document order, skipping a missing parent
\* and a parent equal to one already collected
RECURSIVE Method4Loop(_, _)
Method4Loop(content, obs_rows) ==
    IF content = <<>> THEN obs_rows
    ELSE LET x == Head(content)
             parent == find_parent(x)
             has_link == \E i \in 1..Len(x.inl) : IsChecklistLink(x.inl[i])
         IN IF has_link /\ parent # None /\ ~InSeq(parent, obs_rows)
            THEN Method4Loop(Tail(content), Append(obs_rows, parent))
            ELSE Method4Loop(Tail(content), obs_rows)

Method4(content) == Method4Loop(content, <<>>)

\* variant: every method runs and the candidates are merged
Locate_merge(content) ==
    [obs_rows |-> Method1(content) \o Method2(content) \o Method3(content)
                  \o Method4(content),
     ran |-> {2, 3, 4, 5}]

\* the locator cascade: the candidates and the stages that were run, numbered
\* as in the design (Method k of the code is stage k + 1, the fallback stage 6)
Locate(content) ==
    LET m1 == Method1(content)
        m2 == IF m1 = <<>> THEN Method2(content) ELSE m1
        m3 == IF m2 = <<>> THEN Method3(content) ELSE m2
        m4 == IF m3 = <<>> THEN Method4(content) ELSE m3
    IN [obs_rows |-> m4,
        ran |-> {2} \cup (IF m1 = <<>> THEN {3} ELSE {})
                    \cup (IF m2 = <<>> THEN {4} ELSE {})
                    \cup (IF m3 = <<>> THEN {5} ELSE {})]

\* for row in obs_rows: keep the records whose species is truthy
RECURSIVE RowLoop(_)
RowLoop(obs_rows) ==
    IF obs_rows = <<>> THEN <<>>
    ELSE LET s == extract_sighting_data(Head(obs_rows)) IN
         IF s.species # <<>> THEN <<s>> \o RowLoop(Tail(obs_rows))
         ELSE RowLoop(Tail(obs_rows))

\* variant: the fallback's records are added to the fragments' records
parse_alerts_extend(soup) ==
    LET loc == Locate(Content(soup))
        found == RowLoop(loc.obs_rows)
        generic == extract_sightings_generic(soup)
    IN [ran |-> loc.ran \cup {6}, raised |-> generic.raised,
        sightings |-> found \o generic.out]

\* parse_alerts(html): the stages run, the exception that escaped (if any) and
\* the returned list
parse_alerts(soup) ==
    LET loc == Locate(Content(soup))
        found == RowLoop(loc.obs_rows)
        generic == extract_sightings_generic(soup)
    IN IF found # <<>>
       THEN [ran |-> loc.ran, raised |-> "", sightings |-> found]
       ELSE [ran |-> loc.ran \cup {6}, raised |-> generic.raised,
             sightings |-> generic.out]

(* ---------------------------- generate_output --------------------------- *)
L_timestamp == <<"Y","Y","Y","Y","-","M","M","-","D","D"," ",
                 "H","H",":","M","M",":","S","S"," ","U","T","C">>
L_placeholder == <<"N","o"," ","s","i","g","h","t","i","n","g","s"," ",
                   "f","o","u","n","d">>
L_dash == <<"-">>

\* variant: count is the number of distinct sightings
Report_distinct(list) ==
    [last_updated |-> L_timestamp, alert_url |-> ALERT_URL,
     sightings |-> list, count |-> Cardinality({list[i] : i \in 1..Len(list)})]

\* the data dict
Report(list) ==
    [last_updated |-> L_timestamp, alert_url |-> ALERT_URL,
     sightings |-> list, count |-> Len(list)]

NoReport == [last_updated |-> <<>>, alert_url |-> <<>>, sightings |-> <<>>, count |-> 0]

\* one <tr> of the inline table: its colspan and the text of its cells
TableRow(s) ==
    [colspan |-> 1,
     cells |-> <<s.species, s.location, s.date, s.observer,
                 IF s.checklist_url # <<>> THEN s.checklist_url ELSE L_dash>>]

PlaceholderRow == [colspan |-> 5, cells |-> <<L_placeholder>>]

\* an HTML document: who produced it, the data it was given, its table body
Html(via, data, tbody) == [via |-> via, data |-> data, tbody |-> tbody]

NoHtml == Html("", NoReport, <<>>)

generate_simple_html(data) ==
    LET rows == [i \in 1..Len(data.sightings) |-> TableRow(data.sightings[i])]
    IN Html("inline", data, IF rows # <<>> THEN rows ELSE <<PlaceholderRow>>)

\* template.render(**data): the template file is not part of the sources, only
\* the variables it is given are known
render(data) == Html("template", data, <<>>)

\* what is on disk at template_dir when generate_output looks
TemplateDirs == {"absent", "without index.html", "with index.html"}

\* the branch of generate_output that produces html_content
html_content(template_dir, data) ==
    IF template_dir # "absent"
    THEN IF template_dir = "with index.html"
         THEN [raised |-> "", html |-> render(data)]
         ELSE [raised |-> "TemplateNotFound", html |-> NoHtml]
    ELSE [raised |-> "", html |-> generate_simple_html(data)]

(* ------------------------------ fetch_alerts ---------------------------- *)
L_login == <<"l","o","g","i","n">>
LOGIN_URL == <<"h","t","t","p","s",":","/","/","s","e","c","u","r","e",".",
               "e","x","a","m","p","l","e","/","L","o","g","i","n">>

OK == 200

\* the final response of session.get (redirects are followed by the library)
Responses == [status_code : {OK, 302, 500}, url : {ALERT_URL, LOGIN_URL}]

NoResponse == [status_code |-> 0, url |-> <<>>]

NoPage == Page(<<>>, <<>>)

\* pages served in the runs that start from the environment
FetchedPages == {p \in Pages : Len(p.rows) + Len(p.scripts) <= 1}

E_not_set == "ERROR: EBIRD_COOKIES environment variable not set"
E_status == "ERROR: Failed to fetch alerts. Status code"
E_login == "ERROR: Redirected to login page. Cookies may have expired."

(* -------------------------------- main ---------------------------------- *)
Init ==
    /\ pc = "start"
    /\ cookies = EmptyDict
    /\ requests = 0
    /\ response = NoResponse
    /\ html = NoPage
    /\ sightings = <<>>
    /\ stages = {}
    /\ data_json = NoReport
    /\ index_html = NoHtml
    /\ written = {}
    /\ stdout = {}
    /\ exit_code = -1
    /\ exception = ""
    /\ element = None
    /\ sighting = EmptySighting

\* sys.exit(1)
Exit ==
    /\ pc' = "exit"
    /\ exit_code' = 1

\* an exception nobody catches ends the process with a traceback
Crash(e) ==
    /\ pc' = "crash"
    /\ exception' = e
    /\ exit_code' = 1

\* cookies = get_cookies_from_env()
GetCookies ==
    /\ pc = "start"
    /\ \E cookie_string \in CookieStrings :
         IF cookie_string = <<>>
         THEN /\ stdout' = stdout \cup {E_not_set}
              /\ Exit
              /\ UNCHANGED cookies
         ELSE /\ cookies' = ParseCookies(cookie_string)
              /\ pc' = "fetch"
              /\ UNCHANGED <<stdout, exit_code>>
    /\ UNCHANGED <<requests, response, html, sightings, stages, data_json,
                   index_html, written, exception, element, sighting>>

\* html = fetch_alerts(cookies)
FetchAlerts ==
    /\ pc = "fetch"
    /\ requests' = requests + 1
    /\ \/ /\ Crash("RequestException")
          /\ UNCHANGED <<response, html, stdout>>
       \/ \E r \in Responses, page \in FetchedPages :
            /\ response' = r
            /\ IF r.status_code # OK
               THEN /\ stdout' = stdout \cup {E_status}
                        \cup (IF Contains(Lower(r.url), L_login) THEN {E_login} ELSE {})
                    /\ Exit
                    /\ UNCHANGED <<html, exception>>
               ELSE /\ html' = page
                    /\ pc' = "parse"
                    /\ UNCHANGED <<stdout, exit_code, exception>>
    /\ UNCHANGED <<cookies, sightings, stages, data_json, index_html, written,
                   element, sighting>>

\* sightings = parse_alerts(html)
ParseAlerts ==
    /\ pc = "parse"
    /\ LET r == parse_alerts(html) IN
         /\ stages' = r.ran
         /\ IF r.raised # ""
            THEN /\ Crash(r.raised)
                 /\ UNCHANGED sightings
            ELSE /\ sightings' = r.sightings
                 /\ pc' = "output"
                 /\ UNCHANGED <<exit_code, exception>>
    /\ UNCHANGED <<cookies, requests, response, html, data_json, index_html,
                   written, stdout, element, sighting>>

\* generate_output(sightings, output_dir), then the return from main
GenerateOutput ==
    /\ pc = "output"
    /\ \E template_dir \in TemplateDirs :
         LET data == Report(sightings)
             r == html_content(template_dir, data)
         IN /\ data_json' = data
            /\ IF r.raised # ""
               THEN /\ Crash(r.raised)
                    /\ written' = written \cup {"data.json"}
                    /\ UNCHANGED index_html
               ELSE /\ index_html' = r.html
                    /\ written' = written \cup {"data.json", "index.html"}
                    /\ pc' = "done"
                    /\ exit_code' = 0
                    /\ UNCHANGED exception
    /\ UNCHANGED <<cookies, requests, response, html, sightings, stages, stdout,
                   element, sighting>>

Next == GetCookies \/ FetchAlerts \/ ParseAlerts \/ GenerateOutput

\* a run of main() from the process start
Spec == Init /\ [][Next]_vars

\* a run of main() from the return of fetch_alerts, over every page
InitParse ==
    /\ pc = "parse"
    /\ cookies = ParseCookies(<<"k","=","k">>)
    /\ requests = 1
    /\ response = [status_code |-> OK, url |-> ALERT_URL]
    /\ html \in Pages
    /\ sightings = <<>>
    /\ stages = {}
    /\ data_json = NoReport
    /\ index_html = NoHtml
    /\ written = {}
    /\ stdout = {}
    /\ exit_code = -1
    /\ exception = ""
    /\ element = None
    /\ sighting = EmptySighting

NextParse == ParseAlerts \/ GenerateOutput

SpecParse == InitParse /\ [][NextParse]_vars

\* extract_sighting_data applied to every fragment
InitExtract ==
    /\ pc = "extract"
    /\ cookies = EmptyDict
    /\ requests = 0
    /\ response = NoResponse
    /\ html = NoPage
    /\ sightings = <<>>
    /\ stages = {}
    /\ data_json = NoReport
    /\ index_html = NoHtml
    /\ written = {}
    /\ stdout = {}
    /\ exit_code = -1
    /\ exception = ""
    /\ element \in Fragments
    /\ sighting = EmptySighting

ExtractSightingData ==
    /\ pc = "extract"
    /\ sighting' = extract_sighting_data(element)
    /\ pc' = "extracted"
    /\ UNCHANGED <<cookies, requests, response, html, sightings, stages, data_json,
                   index_html, written, stdout, exit_code, exception, element>>

NextExtract == ExtractSightingData

SpecExtract == InitExtract /\ [][NextExtract]_vars

(* ------------------------------ properties ------------------------------ *)
HasSpecies(s) == s.species # <<>>

\* the records with a species among those extracted from the candidates, in order
KeptRecords(candidates) ==
    SelectSeq([i \in 1..Len(candidates) |-> extract_sighting_data(candidates[i])],
              HasSpecies)

\* the candidates of one fragment stage taken alone
Stage(k, content) ==
    CASE k = 2 -> Method1(content)
      [] k = 3 -> Method2(content)
      [] k = 4 -> Method3(content)
      [] k = 5 -> Method4(content)

\* parse_alerts has returned (the run may have failed later)
Parsed == pc \in {"output", "done"} \/ (pc = "crash" /\ "data.json" \in written)

\* C1: every Sighting returned by parse_alerts has a non-empty species,
\* whether it was built from a fragment or from a structured-data block.
C1_SpeciesNonEmpty ==
    Parsed => \A i \in 1..Len(sightings) : sightings[i].species # <<>>

\* C2 (as stated): once stage 2 yields a candidate, no later stage runs, the
\* stage-6 fallback included, and only stage-2 candidates feed the output.
C2_NoLaterStageRuns ==
    (stages # {} /\ Stage(2, Content(html)) # <<>>) =>
        /\ stages = {2}
        /\ Parsed => sightings = KeptRecords(Stage(2, Content(html)))

\* C2 (amended): once stage 2 yields a candidate, stages 3-5 do not run; the
\* stage-6 fallback runs exactly when no stage-2 candidate yields a species,
\* and otherwise the output is the stage-2 records that have a species.
C2_FirstMatchAmongFragmentStages ==
    (stages # {} /\ Stage(2, Content(html)) # <<>>) =>
        LET kept == KeptRecords(Stage(2, Content(html))) IN
        /\ stages \cap {3, 4, 5} = {}
        /\ 6 \in stages <=> kept = <<>>
        /\ (Parsed /\ 6 \notin stages) => sightings = kept
        /\ (Parsed /\ 6 \in stages) => sightings = extract_sightings_generic(html).out

\* stage 2 found candidates without a species, a later fragment stage would
\* have matched, and the fallback supplied the output
C2_Witness ==
    /\ pc = "output"
    /\ Stage(2, Content(html)) # <<>>
    /\ Stage(4, Content(html)) # <<>>
    /\ stages = {2, 6}
    /\ sightings # <<>>

\* C3: a network request is only ever made with a non-empty cookie mapping.
C3_RequestOnlyWithCookies == requests > 0 => DOMAIN cookies # {}

IsLoginUrl(url) == Contains(Lower(url), L_login)

\* C4: a response that is not 200, or whose final URL is a login page, ends
\* the run non-zero without parsing, without writing a file and without a
\* second request, and the login diagnostic is printed whenever the URL
\* contains "login".
C4_FetchErrorsFatal ==
    (response # NoResponse
       /\ (response.status_code # OK \/ IsLoginUrl(response.url))) =>
        /\ pc = "exit"
        /\ exit_code = 1
        /\ stages = {}
        /\ written = {}
        /\ requests = 1
        /\ IsLoginUrl(response.url) => E_login \in stdout

\* C5: no linked-data block makes parse_alerts fail: the exception a block
\* raises never leaves extract_sightings_generic.
C5_MalformedBlockNeverAborts ==
    6 \in stages => (pc # "crash" \/ "data.json" \in written)

IsAbsoluteUrl(url) ==
    \/ StartsWith(url, <<"h","t","t","p","s",":","/","/">>)
    \/ StartsWith(url, <<"h","t","t","p",":","/","/">>)

\* C6: a root-relative checklist href is stored with the host in front, any
\* other href unchanged, and checklist_url is always empty or absolute.
C6_ChecklistUrlAbsolute ==
    pc = "extracted" =>
        /\ \A i \in 1..Len(element.inl) :
             (IsChecklistLink(element.inl[i])
                /\ \A j \in 1..(i - 1) : ~IsChecklistLink(element.inl[j])) =>
                 sighting.checklist_url =
                     IF Head(element.inl[i].href) = "/"
                     THEN L_host \o element.inl[i].href
                     ELSE element.inl[i].href
        /\ sighting.checklist_url = <<>> \/ IsAbsoluteUrl(sighting.checklist_url)

\* C7: the Report has count = length of its sightings, the sightings are the
\* ones parse_alerts returned, in its order; with none, count is 0, the list
\* is empty and the inline HTML is the "No sightings found" row alone.
C7_ReportCountAndOrder ==
    "data.json" \in written =>
        /\ data_json.count = Len(data_json.sightings)
        /\ data_json.sightings = sightings
        /\ data_json.sightings = parse_alerts(html).sightings
        /\ index_html.via = "inline" =>
             /\ index_html.data = data_json
             /\ IF sightings = <<>>
                THEN index_html.tbody = <<PlaceholderRow>>
                ELSE /\ Len(index_html.tbody) = Len(sightings)
                     /\ \A i \in 1..Len(sightings) :
                          /\ index_html.tbody[i] # PlaceholderRow
                          /\ index_html.tbody[i].cells[1] = sightings[i].species
        /\ sightings = <<>> => (data_json.count = 0 /\ data_json.sightings = <<>>)

\* a report of several sightings, two of them equal, rendered inline
C7_Witness ==
    /\ pc = "done"
    /\ index_html.via = "inline"
    /\ Len(data_json.sightings) >= 2
    /\ \E i, j \in 1..Len(data_json.sightings) :
         i < j /\ data_json.sightings[i] = data_json.sightings[j]

\* C8: every run that reaches generate_output writes data.json and index.html
\* and exits 0, whatever the state of the template directory.
C8_BothFilesWritten ==
    "data.json" \in written =>
        /\ written = {"data.json", "index.html"}
        /\ pc = "done"
        /\ exit_code = 0

\* the least of a set of positions (0 if there is none)
First(hits) == IF hits # {} THEN CHOOSE i \in hits : \A j \in hits : i <= j ELSE 0

\* C9 (as stated): species is the trimmed text of a species-classed link or
\* span when there is one, otherwise of the first of <strong>/<b> in document
\* order.
C9_FirstBoldInDocumentOrder ==
    pc = "extracted" =>
        LET inl == element.inl
            classed == {i \in 1..Len(inl) : IsSpeciesLink(inl[i]) \/ IsSpeciesSpan(inl[i])}
            bold == First({i \in DOMAIN inl : IsStrongOrBold(inl[i])})
        IN IF classed # {}
           THEN \E i \in classed : sighting.species = Strip(inl[i].text)
           ELSE IF bold # 0
                THEN sighting.species = Strip(inl[bold].text)
                ELSE sighting.species = <<>>

\* C9 (amended): species is the trimmed text of the first species-classed
\* link; failing that of the first species-classed span; failing that of the
\* first <strong>; failing that of the first <b>; and empty otherwise.  The
\* guess that matches is used even when its text is empty.
C9_SpeciesPrecedence ==
    pc = "extracted" =>
        LET inl == element.inl
            link == First({i \in DOMAIN inl : IsSpeciesLink(inl[i])})
            span == First({i \in DOMAIN inl : IsSpeciesSpan(inl[i])})
            strong == First({i \in DOMAIN inl : IsStrong(inl[i])})
            bold == First({i \in DOMAIN inl : IsBold(inl[i])})
            chosen == IF link # 0 THEN link
                      ELSE IF span # 0 THEN span
                      ELSE IF strong # 0 THEN strong
                      ELSE bold
        IN sighting.species = IF chosen = 0 THEN <<>> ELSE Strip(inl[chosen].text)

\* a fragment without species-classed elements whose <b> comes before its
\* <strong>: the <strong> supplies the species
C9_Witness ==
    /\ pc = "extracted"
    /\ Len(element.inl) = 2
    /\ IsBold(element.inl[1])
    /\ IsStrong(element.inl[2])
    /\ sighting.species = Strip(element.inl[2].text)
    /\ sighting.species # Strip(element.inl[1].text)

\* C10: the output is never mixed: it is the records of the candidates of one
\* fragment stage, or the records of the fallback; the fallback runs exactly
\* when the fragment path kept no record, and then its result is the output.
C10_NoMixedSources ==
    LET content == Content(html)
        generic == extract_sightings_generic(html)
    IN /\ stages # {} =>
            (6 \in stages <=>
                \A k \in stages \cap {2, 3, 4, 5} : KeptRecords(Stage(k, content)) = <<>>)
       /\ stages # {} =>
            Cardinality({k \in stages \cap {2, 3, 4, 5} : Stage(k, content) # <<>>}) <= 1
       /\ Parsed =>
            IF 6 \in stages
            THEN sightings = generic.out
            ELSE /\ sightings # <<>>
                 /\ \E k \in stages \cap {2, 3, 4, 5} :
                      sightings = KeptRecords(Stage(k, content))

\* fragments and structured data both offer records; only the fragments'
\* records are returned
C10_Witness ==
    /\ pc = "output"
    /\ 6 \notin stages
    /\ sightings # <<>>
    /\ extract_sightings_generic(html).out # <<>>
    /\ \A i \in 1..Len(sightings) :
         \A j \in 1..Len(extract_sightings_generic(html).out) :
            sightings[i] # extract_sightings_generic(html).out[j]

====
